---- MODULE Spec2Model ----
(***************************************************************************)
(* Model of the indexer (main.cpp and its in-memory variant): a command    *)
(* line program that builds a sorted fixed-stride index of the lines of a  *)
(* data file (-c), lists the indexed records (-l) and looks one up by      *)
(* binary search (-s).  Files are byte sequences; every invocation is one  *)
(* run of main(), the search loop being split into one step per probe.     *)
(***************************************************************************)
EXTENDS Integers, Sequences, FiniteSets, TLC

\* ------------------------------------------------------------------ bounds
\* Longest data file, in bytes.
MaxDataLen == 4
\* Largest keylength argument, and longest search key.
MaxKeyLen == 2
\* Most entries of an index file handed to a search as it is.
MaxEntries == 4

\* ------------------------------------------------------- program constants
\* '\n', the delimiter of getline.
NL == 10
\* sizeof(std::streamoff) on the 64-bit build.
OffsetSize == 8

\* Bytes of the modelled data files: newline, 'A' and a byte above 127.
Alphabet == {NL, 65, 200}
\* Bytes of the search keys given on the command line: the two of the data
\* files and 'B', which lies between them.
KeyAlphabet == {65, 66, 200}

Min(a, b) == IF a < b THEN a ELSE b

\* ------------------------------------------------------------------- files
\* A file name either cannot be opened for reading or names a byte sequence.
NoFile == [exists |-> FALSE, bytes |-> << >>]
File(b) == [exists |-> TRUE, bytes |-> b]

\* All byte sequences over S of length at most n.
SeqsUpTo(S, n) == UNION {[1..k -> S] : k \in 0..n}

DataFiles == {NoFile} \cup {File(b) : b \in SeqsUpTo(Alphabet, MaxDataLen)}

\* An index file left by somebody else: nine bytes, not written by a build.
ForeignIndex == File(<<200, 65, 0, 0, 0, 0, 0, 0, 0>>)

\* -------------------------------------------------------------- std::string
\* std::string::substr(0, n): at most n bytes from the start.
Substr0(s, n) == SubSeq(s, 1, Min(n, Len(s)))

\* Mutant of StringLess: the bytes compared as signed char.
RECURSIVE StringLessSigned(_, _)
StringLessSigned(a, b) ==
    LET sa == IF Head(a) >= 128 THEN Head(a) - 256 ELSE Head(a)
        sb == IF Head(b) >= 128 THEN Head(b) - 256 ELSE Head(b)
    IN IF b = << >> THEN FALSE
       ELSE IF a = << >> THEN TRUE
       ELSE IF sa < sb THEN TRUE
       ELSE IF sa > sb THEN FALSE
       ELSE StringLessSigned(Tail(a), Tail(b))

\* operator< of std::string: lexicographic on unsigned bytes, a proper
\* prefix being smaller.
RECURSIVE StringLess(_, _)
StringLess(a, b) ==
    IF b = << >> THEN FALSE
    ELSE IF a = << >> THEN TRUE
    ELSE IF Head(a) < Head(b) THEN TRUE
    ELSE IF Head(a) > Head(b) THEN FALSE
    ELSE StringLess(Tail(a), Tail(b))

\* ------------------------------------------------------------ data stream
\* 1-based index of the first newline at index p or later, Len+1 if none.
RECURSIVE LineEnd(_, _)
LineEnd(data, p) ==
    IF p > Len(data) THEN p
    ELSE IF data[p] = NL THEN p
    ELSE LineEnd(data, p + 1)

\* tellg() after a getline: the position, or -1 once getline has run into
\* the end of the file (eofbit makes the sentry of tellg fail).
Tellg(pos, hitEof) == IF hitEof THEN 0 - 1 ELSE pos

\* seekg(off) followed by getline on a stream that is not failed: the line
\* starting at byte off.  A negative offset or one at or past the end of the
\* file extracts nothing.
SeekFails(data, off) == off < 0 \/ off >= Len(data)
ReadLineAt(data, off) ==
    IF SeekFails(data, off) THEN << >>
    ELSE SubSeq(data, off + 1, LineEnd(data, off + 1) - 1)

\* ------------------------------------------------------------ index entries
\* Mutant of HasKey: a line one byte too short still gets an entry.
HasKeyOffByOne(line, keyLength) == Len(line) + 1 >= keyLength

\* The condition under which a line gets an index entry.
HasKey(line, keyLength) == Len(line) >= keyLength

IndexEntry(k, off) == [key |-> k, offset |-> off]

\* Mutant of NextOffsetByLength: the newline is not counted.
NextOffsetWithoutNewline(offset, line) == offset + Len(line)

\* The offset of the next line in the length-plus-one variant.
NextOffsetByLength(offset, line) == offset + Len(line) + 1

\* The getline loop of createIndex and of the in-memory build that uses
\* tellg: the entries in file order.  pos is the stream position (0-based),
\* offset the value of the variable offset.
RECURSIVE ExtractTellg(_, _, _, _)
ExtractTellg(data, keyLength, pos, offset) ==
    IF pos >= Len(data) THEN << >>
    ELSE LET e == LineEnd(data, pos + 1)
             line == SubSeq(data, pos + 1, e - 1)
             hitEof == e > Len(data)
             newpos == IF hitEof THEN Len(data) ELSE e
             ent == IF HasKey(line, keyLength)
                    THEN << IndexEntry(Substr0(line, keyLength), offset) >>
                    ELSE << >>
         IN ent \o ExtractTellg(data, keyLength, newpos, Tellg(newpos, hitEof))

\* The getline loop of the in-memory build that adds length + 1.
RECURSIVE ExtractByLength(_, _, _, _)
ExtractByLength(data, keyLength, pos, offset) ==
    IF pos >= Len(data) THEN << >>
    ELSE LET e == LineEnd(data, pos + 1)
             line == SubSeq(data, pos + 1, e - 1)
             newpos == IF e > Len(data) THEN Len(data) ELSE e
             ent == IF HasKey(line, keyLength)
                    THEN << IndexEntry(Substr0(line, keyLength), offset) >>
                    ELSE << >>
         IN ent \o ExtractByLength(data, keyLength, newpos,
                                   NextOffsetByLength(offset, line))

\* ------------------------------------------------------------ serialisation
\* write(key.c_str(), keyLength): keyLength bytes starting at the key (the
\* terminating zero follows a key that is shorter).
WriteKey(key, keyLength) ==
    [i \in 1..keyLength |-> IF i <= Len(key) THEN key[i] ELSE 0]

RECURSIVE Pow256(_)
Pow256(i) == IF i = 0 THEN 1 ELSE 256 * Pow256(i - 1)

\* Mutant of EncodeOffset: a std::streamoff of four bytes.
EncodeOffset32(off) ==
    [i \in 1..4 |-> IF off < 0 THEN 255 ELSE (off \div Pow256(i - 1)) % 256]

\* The eight bytes of a std::streamoff, least significant first.  Offsets of
\* the model fit in 31 bits; -1 is all ones.
EncodeOffset(off) ==
    [i \in 1..OffsetSize |->
        IF off < 0 THEN 255
        ELSE IF i <= 4 THEN (off \div Pow256(i - 1)) % 256
        ELSE 0]

\* Mutant of DecodeOffset: the eight bytes read most significant first.
DecodeOffsetBigEndian(b) ==
    IF b[5] >= 128 \/ \E i \in 1..4 : b[i] # 0 THEN 0 - 1
    ELSE b[8] + 256 * b[7] + 65536 * b[6] + 16777216 * b[5]

\* The std::streamoff read back from eight bytes.  Every value that is
\* negative or does not fit in 31 bits is reported as -1: all of them are
\* offsets no line of a modelled data file starts at.
DecodeOffset(b) ==
    IF b[4] >= 128 \/ \E i \in 5..OffsetSize : b[i] # 0 THEN 0 - 1
    ELSE b[1] + 256 * b[2] + 65536 * b[3] + 16777216 * b[4]

Stride(keyLength) == keyLength + OffsetSize

\* The write loop of the builds: key bytes, then offset bytes, per entry.
RECURSIVE Serialize(_, _)
Serialize(entries, keyLength) ==
    IF entries = << >> THEN << >>
    ELSE WriteKey(Head(entries).key, keyLength)
         \o EncodeOffset(Head(entries).offset)
         \o Serialize(Tail(entries), keyLength)

\* The reload loop of createIndex over the temporary file, from byte pos.
RECURSIVE LoadTemp(_, _, _)
LoadTemp(bytes, keyLength, pos) ==
    LET left == Len(bytes) - pos
        gotKey == Min(keyLength, left)
        gotOff == IF gotKey < keyLength THEN 0
                  ELSE Min(OffsetSize, left - keyLength)
    IN IF gotOff = 0 THEN << >>
       ELSE LET raw == SubSeq(bytes, pos + keyLength + 1, pos + keyLength + gotOff)
                padded == [i \in 1..OffsetSize |->
                              IF i <= gotOff THEN raw[i] ELSE 0]
                entry == IndexEntry(SubSeq(bytes, pos + 1, pos + keyLength),
                                    DecodeOffset(padded))
            IN << entry >>
               \o (IF gotOff < OffsetSize THEN << >>
                   ELSE LoadTemp(bytes, keyLength, pos + Stride(keyLength)))

\* --------------------------------------------------------------------- sort
compareIndexEntries(a, b) == StringLess(a.key, b.key)

\* std::sort with compareIndexEntries, as an insertion sort.  The order of
\* entries with equal keys is not specified by std::sort: ties says whether
\* an entry goes behind ("stable") or in front of ("reverse") the entries
\* with its key that are already placed.
RECURSIVE InsertEntry(_, _, _)
InsertEntry(e, sorted, ties) ==
    IF sorted = << >> THEN << e >>
    ELSE IF (IF ties = "stable"
             THEN compareIndexEntries(e, Head(sorted))
             ELSE ~compareIndexEntries(Head(sorted), e))
         THEN << e >> \o sorted
         ELSE << Head(sorted) >> \o InsertEntry(e, Tail(sorted), ties)

\* Mutant of StdSort: an entry whose key is already placed is dropped.
RECURSIVE StdSortUnique(_, _)
StdSortUnique(entries, ties) ==
    IF entries = << >> THEN << >>
    ELSE LET e == entries[Len(entries)]
             rest == StdSortUnique(SubSeq(entries, 1, Len(entries) - 1), ties)
         IN IF \E i \in DOMAIN rest : rest[i].key = e.key THEN rest
            ELSE InsertEntry(e, rest, ties)

RECURSIVE StdSort(_, _)
StdSort(entries, ties) ==
    IF entries = << >> THEN << >>
    ELSE InsertEntry(entries[Len(entries)],
                     StdSort(SubSeq(entries, 1, Len(entries) - 1), ties), ties)

\* ------------------------------------------------------------------- builds
ErrDataRead == "Error opening data file for reading."
ErrTempWrite == "Error opening temporary index file for writing."
ErrIndexWrite == "Error opening index file for writing."
ErrIndexRead == "Error opening index file for reading."
UsageMain == "Usage: -c|-l|-s datafile indexfile keylength [key]"
UsageSearch == "Usage: -s datafile indexfile keylength key"
InvalidModeMsg == "Invalid mode."

\* What a build leaves behind: the index file, the temporary file, the
\* lines on the error stream, and whether the index file was written.
BuildResult(index, tmp, errs, wrote) ==
    [index |-> index, tmp |-> tmp, err |-> errs, wrote |-> wrote]

\* checkOrCreateIndexFile: opens the file for reading and closes it.
checkOrCreateIndexFile(file) == file

\* Mutant of createIndex: the temporary file is opened for writing before
\* the data file is looked at.
createIndexOpensTempFirst(data, index, tmp, keyLength, e) ==
    IF ~e.tmpOpens THEN BuildResult(index, tmp, << ErrTempWrite >>, FALSE)
    ELSE IF ~data.exists
    THEN BuildResult(index, File(<< >>), << ErrDataRead >>, FALSE)
    ELSE LET tmpBytes == Serialize(ExtractTellg(data.bytes, keyLength, 0, 0),
                                   keyLength)
             sorted == StdSort(LoadTemp(tmpBytes, keyLength, 0), e.ties)
         IN IF e.indexOpens
            THEN BuildResult(File(Serialize(sorted, keyLength)),
                             NoFile, << >>, TRUE)
            ELSE BuildResult(index, NoFile, << >>, FALSE)

\* createIndex of main.cpp.  e.tmpOpens and e.indexOpens say whether the
\* two output files can be opened for writing.
createIndex(data, index, tmp, keyLength, e) ==
    IF ~data.exists THEN BuildResult(index, tmp, << ErrDataRead >>, FALSE)
    ELSE LET tmp1 == checkOrCreateIndexFile(tmp)
         IN IF ~e.tmpOpens
            THEN BuildResult(index, tmp1, << ErrTempWrite >>, FALSE)
            ELSE LET tmpBytes == Serialize(
                                     ExtractTellg(data.bytes, keyLength, 0, 0),
                                     keyLength)
                     indexEntries == LoadTemp(tmpBytes, keyLength, 0)
                     sorted == StdSort(indexEntries, e.ties)
                 IN IF e.indexOpens
                    THEN BuildResult(File(Serialize(sorted, keyLength)),
                                     NoFile, << >>, TRUE)
                    ELSE BuildResult(index, NoFile, << >>, FALSE)

\* createIndexInMemorySort of the second program: offsets from tellg.
createIndexInMemorySortTellg(data, index, tmp, keyLength, e) ==
    IF ~data.exists THEN BuildResult(index, tmp, << ErrDataRead >>, FALSE)
    ELSE LET sorted == StdSort(ExtractTellg(data.bytes, keyLength, 0, 0),
                               e.ties)
         IN IF ~e.indexOpens
            THEN BuildResult(index, tmp, << ErrIndexWrite >>, FALSE)
            ELSE BuildResult(File(Serialize(sorted, keyLength)), tmp,
                             << >>, TRUE)

\* createIndexInMemorySort of main.cpp: offsets by adding length + 1.
createIndexInMemorySort(data, index, tmp, keyLength, e) ==
    IF ~data.exists THEN BuildResult(index, tmp, << ErrDataRead >>, FALSE)
    ELSE LET sorted == StdSort(ExtractByLength(data.bytes, keyLength, 0, 0),
                               e.ties)
         IN IF ~e.indexOpens
            THEN BuildResult(index, tmp, << ErrIndexWrite >>, FALSE)
            ELSE BuildResult(File(Serialize(sorted, keyLength)), tmp,
                             << >>, TRUE)

\* --------------------------------------------------------------------- list
\* The loop of listRecords from byte pos of the index file: the lines it
\* prints.  failed is the failbit of the data stream, which a getline that
\* extracts nothing sets and nothing clears.
RECURSIVE ListLines(_, _, _, _, _)
ListLines(data, idx, keyLength, pos, failed) ==
    LET left == Len(idx) - pos
    IN IF left < keyLength THEN << >>
       ELSE IF left - keyLength < OffsetSize THEN << >>
       ELSE LET off == DecodeOffset(SubSeq(idx, pos + keyLength + 1,
                                           pos + Stride(keyLength)))
                bad == failed \/ SeekFails(data, off)
                record == IF bad THEN << >> ELSE ReadLineAt(data, off)
            IN << record >>
               \o ListLines(data, idx, keyLength, pos + Stride(keyLength), bad)

\* "Record not found", as the bytes printed.
RecordNotFound ==
    << 82, 101, 99, 111, 114, 100, 32, 110, 111, 116, 32, 102, 111, 117, 110, 100 >>

\* ------------------------------------------------------------------- search
\* Mutant of Probe: a key that is not less than the target is taken as a
\* match.
ProbeNoGreater(idx, key, keyLength, lo, hi) ==
    LET mid == lo + (hi - lo) \div 2
        at == mid * Stride(keyLength)
        currentKey == SubSeq(idx, at + 1, at + keyLength)
    IN IF StringLess(currentKey, key)
       THEN [low |-> mid + 1, high |-> hi, found |-> FALSE, recordOffset |-> 0]
       ELSE [low |-> lo, high |-> hi, found |-> TRUE,
             recordOffset |-> DecodeOffset(SubSeq(idx, at + keyLength + 1,
                                                  at + Stride(keyLength)))]

\* Mutant of Probe: on a greater key the range is cut as if high were
\* inclusive.
ProbeHighMidMinusOne(idx, key, keyLength, lo, hi) ==
    LET mid == lo + (hi - lo) \div 2
        at == mid * Stride(keyLength)
        currentKey == SubSeq(idx, at + 1, at + keyLength)
    IN IF StringLess(currentKey, key)
       THEN [low |-> mid + 1, high |-> hi, found |-> FALSE, recordOffset |-> 0]
       ELSE IF StringLess(key, currentKey)
       THEN [low |-> lo, high |-> mid - 1, found |-> FALSE, recordOffset |-> 0]
       ELSE [low |-> lo, high |-> hi, found |-> TRUE,
             recordOffset |-> DecodeOffset(SubSeq(idx, at + keyLength + 1,
                                                  at + Stride(keyLength)))]

\* Mutant of Probe: on a smaller key low becomes mid, not mid + 1.
ProbeLowMid(idx, key, keyLength, lo, hi) ==
    LET mid == lo + (hi - lo) \div 2
        at == mid * Stride(keyLength)
        currentKey == SubSeq(idx, at + 1, at + keyLength)
    IN IF StringLess(currentKey, key)
       THEN [low |-> mid, high |-> hi, found |-> FALSE, recordOffset |-> 0]
       ELSE IF StringLess(key, currentKey)
       THEN [low |-> lo, high |-> mid, found |-> FALSE, recordOffset |-> 0]
       ELSE [low |-> lo, high |-> hi, found |-> TRUE,
             recordOffset |-> DecodeOffset(SubSeq(idx, at + keyLength + 1,
                                                  at + Stride(keyLength)))]

\* One iteration of the binary search loop of searchForKey over the index
\* bytes idx: the new low, high, found and recordOffset.
Probe(idx, key, keyLength, lo, hi) ==
    LET mid == lo + (hi - lo) \div 2
        at == mid * Stride(keyLength)
        currentKey == SubSeq(idx, at + 1, at + keyLength)
    IN IF StringLess(currentKey, key)
       THEN [low |-> mid + 1, high |-> hi, found |-> FALSE, recordOffset |-> 0]
       ELSE IF StringLess(key, currentKey)
       THEN [low |-> lo, high |-> mid, found |-> FALSE, recordOffset |-> 0]
       ELSE [low |-> lo, high |-> hi, found |-> TRUE,
             recordOffset |-> DecodeOffset(SubSeq(idx, at + keyLength + 1,
                                                  at + Stride(keyLength)))]

\* ---------------------------------------------------------------- arguments
KeyLengths == 0..MaxKeyLen
Keys == SeqsUpTo(KeyAlphabet, MaxKeyLen)
Modes == {"-c", "-l", "-s", "-x"}

Arg(argc, mode, keyLength, key) ==
    [argc |-> argc, mode |-> mode, keyLength |-> keyLength, key |-> key]

\* The command lines of the model.  With fewer than five arguments nothing
\* is parsed; a sixth argument is the search key (any key for -s, one
\* fixed extra word for the other modes).
NoArgs == Arg(0, "", 0, << >>)
Argv ==
    {Arg(4, "", 0, << >>)}
    \cup {Arg(5, m, kl, << >>) : m \in Modes, kl \in KeyLengths}
    \cup {Arg(6, m, MaxKeyLen, << 65 >>) : m \in Modes \ {"-s"}}
    \cup {Arg(6, "-s", kl, k) : kl \in KeyLengths, k \in Keys}

\* Whether the two output files of a build can be opened for writing, and
\* how the std::sort of the build orders equal keys.
Env(tmpOpens, indexOpens, ties) ==
    [tmpOpens |-> tmpOpens, indexOpens |-> indexOpens, ties |-> ties]
Envs ==
    {Env(TRUE, TRUE, s) : s \in {"stable", "reverse"}}
    \cup {Env(t, i, "stable") : t \in BOOLEAN, i \in BOOLEAN}
NoEnv == Env(TRUE, TRUE, "stable")

\* -------------------------------------------------------------------- state
VARIABLES
    dataFile,      \* the data file
    indexFile,     \* the index file
    tmpFile,       \* <index>.tmp
    args,          \* argv of the current or last run of main
    env,           \* the environment of the last build
    builder,       \* the build function the last -c run called
    out,           \* lines written to std::cout by the run
    err,           \* lines written to std::cerr by the run
    status,        \* exit status of the run, -1 while it has not returned
    pc,            \* "idle" before a run of main, "probe" inside the search
                   \* loop, "returned" once main has returned
    low, high, found, recordOffset,   \* locals of searchForKey
    builtKL        \* history: keyLength of the build that wrote the index
                   \* file, -1 if no build wrote it

vars == << dataFile, indexFile, tmpFile, args, env, builder, out, err, status,
           pc, low, high, found, recordOffset, builtKL >>

Init ==
    /\ dataFile \in DataFiles
    /\ indexFile \in {NoFile, ForeignIndex}
    /\ tmpFile = NoFile
    /\ args = NoArgs
    /\ env = NoEnv
    /\ builder = "none"
    /\ out = << >>
    /\ err = << >>
    /\ status = 0 - 1
    /\ pc = "idle"
    /\ low = 0
    /\ high = 0
    /\ found = FALSE
    /\ recordOffset = 0
    /\ builtKL = 0 - 1

\* A run of main that does not enter the search loop and touches no file.
Returns(a, outLines, errLines, code) ==
    /\ args' = a
    /\ out' = outLines
    /\ err' = errLines
    /\ status' = code
    /\ pc' = "returned"
    /\ low' = 0
    /\ high' = 0
    /\ found' = FALSE
    /\ recordOffset' = 0

NoBuild ==
    /\ env' = NoEnv
    /\ builder' = "none"
    /\ UNCHANGED << dataFile, indexFile, tmpFile, builtKL >>

\* main: argc < 5.
Usage ==
    /\ pc = "idle"
    /\ \E a \in Argv :
           /\ a.argc < 5
           /\ Returns(a, << >>, << UsageMain >>, 1)
           /\ NoBuild

\* main: a mode other than -c, -l and -s.
InvalidMode ==
    /\ pc = "idle"
    /\ \E a \in Argv :
           /\ a.argc >= 5
           /\ a.mode \notin {"-c", "-l", "-s"}
           /\ indexFile' = checkOrCreateIndexFile(indexFile)
           /\ Returns(a, << >>, << InvalidModeMsg >>, 1)
           /\ env' = NoEnv
           /\ builder' = "none"
           /\ UNCHANGED << dataFile, tmpFile, builtKL >>

\* main: -s without exactly one key.
SearchUsage ==
    /\ pc = "idle"
    /\ \E a \in Argv :
           /\ a.argc >= 5
           /\ a.mode = "-s"
           /\ a.argc # 6
           /\ indexFile' = checkOrCreateIndexFile(indexFile)
           /\ Returns(a, << >>, << UsageSearch >>, 1)
           /\ env' = NoEnv
           /\ builder' = "none"
           /\ UNCHANGED << dataFile, tmpFile, builtKL >>

\* main -c: the build r, run by function name under environment e.
Built(a, e, name, r) ==
    /\ indexFile' = r.index
    /\ tmpFile' = r.tmp
    /\ builtKL' = IF r.wrote THEN a.keyLength ELSE builtKL
    /\ env' = e
    /\ builder' = name
    /\ Returns(a, << >>, r.err, 0)
    /\ UNCHANGED dataFile

\* main of main.cpp, mode -c.
Create ==
    /\ pc = "idle"
    /\ \E a \in Argv, e \in Envs :
           /\ a.argc >= 5
           /\ a.mode = "-c"
           /\ Built(a, e, "createIndex",
                    createIndex(dataFile, checkOrCreateIndexFile(indexFile),
                                tmpFile, a.keyLength, e))

\* main of the second program, mode -c.
CreateInMemoryTellg ==
    /\ pc = "idle"
    /\ \E a \in Argv, e \in Envs :
           /\ a.argc >= 5
           /\ a.mode = "-c"
           /\ e.tmpOpens
           /\ Built(a, e, "createIndexInMemorySortTellg",
                    createIndexInMemorySortTellg(
                        dataFile, checkOrCreateIndexFile(indexFile), tmpFile,
                        a.keyLength, e))

\* mode -c with createIndexInMemorySort of main.cpp as the build.
CreateInMemory ==
    /\ pc = "idle"
    /\ \E a \in Argv, e \in Envs :
           /\ a.argc >= 5
           /\ a.mode = "-c"
           /\ e.tmpOpens
           /\ Built(a, e, "createIndexInMemorySort",
                    createIndexInMemorySort(
                        dataFile, checkOrCreateIndexFile(indexFile), tmpFile,
                        a.keyLength, e))

\* Mutant of listRecords: a loop on eof() alone, which prints the last
\* record once more.
listRecordsEofLoop(data, index, keyLength) ==
    IF ~index.exists THEN [out |-> << >>, err |-> << ErrIndexRead >>]
    ELSE IF ~data.exists THEN [out |-> << >>, err |-> << ErrDataRead >>]
    ELSE LET lines == ListLines(data.bytes, index.bytes, keyLength, 0, FALSE)
         IN [out |-> lines \o (IF lines = << >> THEN << << >> >>
                                ELSE << lines[Len(lines)] >>),
             err |-> << >>]

\* listRecords: the lines on std::cout and on std::cerr.
listRecords(data, index, keyLength) ==
    IF ~index.exists THEN [out |-> << >>, err |-> << ErrIndexRead >>]
    ELSE IF ~data.exists THEN [out |-> << >>, err |-> << ErrDataRead >>]
    ELSE [out |-> ListLines(data.bytes, index.bytes, keyLength, 0, FALSE),
          err |-> << >>]

\* main, mode -l.
List ==
    /\ pc = "idle"
    /\ \E a \in Argv :
           /\ a.argc >= 5
           /\ a.mode = "-l"
           /\ indexFile' = checkOrCreateIndexFile(indexFile)
           /\ LET r == listRecords(dataFile, indexFile', a.keyLength)
              IN Returns(a, r.out, r.err, 0)
           /\ env' = NoEnv
           /\ builder' = "none"
           /\ UNCHANGED << dataFile, tmpFile, builtKL >>

\* main, mode -s with a key: searchForKey up to the start of the loop.
SearchStart ==
    /\ pc = "idle"
    /\ \E a \in Argv :
           /\ a.argc = 6
           /\ a.mode = "-s"
           /\ indexFile' = checkOrCreateIndexFile(indexFile)
           /\ IF ~indexFile'.exists
                 THEN Returns(a, << >>, << ErrIndexRead >>, 0)
              ELSE IF ~dataFile.exists
                 THEN Returns(a, << >>, << ErrDataRead >>, 0)
              ELSE /\ args' = a
                   /\ out' = << >>
                   /\ err' = << >>
                   /\ status' = 0 - 1
                   /\ pc' = "probe"
                   /\ low' = 0
                   /\ high' = Len(indexFile'.bytes) \div Stride(a.keyLength)
                   /\ found' = FALSE
                   /\ recordOffset' = 0
           /\ env' = NoEnv
           /\ builder' = "none"
           /\ UNCHANGED << dataFile, tmpFile, builtKL >>

\* One iteration of the search loop.
SearchProbe ==
    /\ pc = "probe"
    /\ ~found
    /\ low < high
    /\ LET r == Probe(indexFile.bytes, args.key, args.keyLength, low, high)
       IN /\ low' = r.low
          /\ high' = r.high
          /\ found' = r.found
          /\ recordOffset' = r.recordOffset
    /\ UNCHANGED << dataFile, indexFile, tmpFile, args, env, builder, out, err,
                    status, pc, builtKL >>

\* After the loop: print the record or "Record not found", return 0.
SearchFinish ==
    /\ pc = "probe"
    /\ found \/ low >= high
    /\ out' = << IF found THEN ReadLineAt(dataFile.bytes, recordOffset)
                 ELSE RecordNotFound >>
    /\ status' = 0
    /\ pc' = "returned"
    /\ UNCHANGED << dataFile, indexFile, tmpFile, args, env, builder, err,
                    low, high, found, recordOffset, builtKL >>

\* The process ends: nothing of a run but the files outlives it.
Exit ==
    /\ pc = "returned"
    /\ args' = NoArgs
    /\ env' = NoEnv
    /\ builder' = "none"
    /\ out' = << >>
    /\ err' = << >>
    /\ status' = 0 - 1
    /\ pc' = "idle"
    /\ low' = 0
    /\ high' = 0
    /\ found' = FALSE
    /\ recordOffset' = 0
    /\ UNCHANGED << dataFile, indexFile, tmpFile, builtKL >>

Next ==
    \/ Usage
    \/ InvalidMode
    \/ SearchUsage
    \/ Create
    \/ CreateInMemoryTellg
    \/ CreateInMemory
    \/ List
    \/ SearchStart
    \/ SearchProbe
    \/ SearchFinish
    \/ Exit

Spec == Init /\ [][Next]_vars

\* ------------------------------------------------ searches of any index file
\* searchForKey takes the index file as it finds it, whoever wrote it.  The
\* data file of these searches: the records "A" at offset 0 and one byte
\* above 127 at offset 2.
SearchData == File(<< 65, NL, 200 >>)

\* An entry as the builds write it for a key of one byte: the key and the
\* offset of a record of SearchData.
AnyEntries == {IndexEntry(<< k >>, IF k = 200 THEN 2 ELSE 0) : k \in KeyAlphabet}

\* Index files of up to MaxEntries such entries in any order, sorted or not;
\* read with another keylength they are files of arbitrary bytes whose
\* length is no multiple of the stride.
IndexFiles ==
    {NoFile} \cup {File(Serialize(es, 1)) : es \in SeqsUpTo(AnyEntries, MaxEntries)}

SearchInit ==
    /\ dataFile \in {NoFile, SearchData}
    /\ indexFile \in IndexFiles
    /\ tmpFile = NoFile
    /\ args = NoArgs
    /\ env = NoEnv
    /\ builder = "none"
    /\ out = << >>
    /\ err = << >>
    /\ status = 0 - 1
    /\ pc = "idle"
    /\ low = 0
    /\ high = 0
    /\ found = FALSE
    /\ recordOffset = 0
    /\ builtKL = 0 - 1

SearchNext ==
    \/ SearchStart
    \/ SearchProbe
    \/ SearchFinish

\* searchForKey runs in the one thread of the process: an iteration of the
\* loop that can run does run, and so does the code behind the loop.
SearchSpec ==
    SearchInit /\ [][SearchNext]_vars
    /\ WF_vars(SearchProbe) /\ WF_vars(SearchFinish)

\* ============================================================== properties
\* The records of a data file, stated without the build: a record starts at
\* offset 0 or right behind a newline, before the end of the file, and runs
\* up to the next newline or the end of the file.
RecordStarts(data) ==
    {o \in 0..(Len(data) - 1) : o = 0 \/ data[o] = NL}

RecordAt(data, o) ==
    LET ends == {j \in (o + 1)..Len(data) : data[j] = NL}
        stop == IF ends = {} THEN Len(data) + 1
                ELSE CHOOSE j \in ends : \A k \in ends : j <= k
    IN SubSeq(data, o + 1, stop - 1)

\* The records that are long enough to have a key of L bytes.
Keyed(data, L) == {o \in RecordStarts(data) : Len(RecordAt(data, o)) >= L}
KeyOf(data, o, L) == SubSeq(RecordAt(data, o), 1, L)
\* The keyed records whose key is k.
Matching(data, L, k) == {o \in Keyed(data, L) : KeyOf(data, o, L) = k}

\* Byte-lexicographic order on unsigned bytes, stated without recursion.
LexLeq(a, b) ==
    \/ Len(a) <= Len(b) /\ \A i \in 1..Len(a) : a[i] = b[i]
    \/ \E i \in 1..Min(Len(a), Len(b)) :
          /\ a[i] < b[i]
          /\ \A j \in 1..(i - 1) : a[j] = b[j]

\* The key of entry i (from 0) of an index file of stride L + 8.
KeyField(idx, L, i) == SubSeq(idx, i * (L + 8) + 1, i * (L + 8) + L)
EntryCount(idx, L) == Len(idx) \div (L + 8)

\* The index file is the one a build wrote with key length builtKL.
IndexBuilt == builtKL >= 0
\* A run of main has returned from mode m on the built index, given the key
\* length of the build.
Ran(m) ==
    /\ pc = "returned"
    /\ args.mode = m
    /\ IndexBuilt
    /\ args.keyLength = builtKL
Searched == Ran("-s") /\ args.argc = 6
Listed == Ran("-l")
\* A build has just written the index file.
JustBuilt == Ran("-c") /\ builder # "none" /\ indexFile # NoFile /\ err = << >>
             /\ env.indexOpens

\* C1 as claimed: after a build with key length L, a search for the first L
\* bytes of a record r of length >= L prints exactly the line of r.
C1_RoundTripSameRecord ==
    Searched =>
        \A o \in Matching(dataFile.bytes, builtKL, args.key) :
            out = << RecordAt(dataFile.bytes, o) >>

\* C1 as amended: after a build with key length L, a search for the first L
\* bytes of a record of length >= L prints exactly one line, the full line
\* of a record of length >= L that starts with those L bytes (the record
\* itself when no other record shares its key).
C1_RoundTrip ==
    Searched =>
        LET M == Matching(dataFile.bytes, builtKL, args.key)
        IN M # {} => \E o \in M : out = << RecordAt(dataFile.bytes, o) >>

C1_Witness ==
    /\ Searched
    /\ builtKL >= 1
    /\ \E o1, o2 \in Matching(dataFile.bytes, builtKL, args.key) :
          /\ RecordAt(dataFile.bytes, o1) # RecordAt(dataFile.bytes, o2)
          /\ out = << RecordAt(dataFile.bytes, o2) >>

\* The index entries of a built index file, read field by field.
Entries(idx, L) == 0..(EntryCount(idx, L) - 1)
OffsetField(idx, L, i) ==
    LET at == i * (L + 8) + L
    IN IF \E j \in 4..8 : idx[at + j] # 0 THEN 0 - 1
       ELSE idx[at + 1] + 256 * idx[at + 2] + 65536 * idx[at + 3]

\* C2: the index file written by a build has its keys in non-decreasing
\* byte-lexicographic order (unsigned bytes): key[i] <= key[i+1] for every
\* adjacent pair of entries.
C2_SortCorrectness ==
    IndexBuilt =>
        \A i \in Entries(indexFile.bytes, builtKL) :
            i + 1 \in Entries(indexFile.bytes, builtKL) =>
                LexLeq(KeyField(indexFile.bytes, builtKL, i),
                       KeyField(indexFile.bytes, builtKL, i + 1))

\* A build has written an index of a file whose records are not in key
\* order, a byte above 127 coming before an ASCII one.
C2_Witness ==
    /\ JustBuilt
    /\ \E o1, o2 \in Keyed(dataFile.bytes, builtKL) :
          /\ o1 < o2
          /\ ~LexLeq(KeyOf(dataFile.bytes, o1, builtKL),
                     KeyOf(dataFile.bytes, o2, builtKL))

\* C3: against a built index, a search for a key of length keyLength that
\* is the key of no index entry prints "Record not found" and nothing else.
C3_NegativeLookup ==
    (/\ Searched
     /\ Len(args.key) = builtKL
     /\ \A i \in Entries(indexFile.bytes, builtKL) :
           KeyField(indexFile.bytes, builtKL, i) # args.key)
    => out = << RecordNotFound >>

\* A miss on an index with entries on both sides of the key.
C3_Witness ==
    /\ Searched
    /\ Len(args.key) = builtKL
    /\ out = << RecordNotFound >>
    /\ \E i, j \in Entries(indexFile.bytes, builtKL) :
          /\ KeyField(indexFile.bytes, builtKL, i) # args.key
          /\ LexLeq(KeyField(indexFile.bytes, builtKL, i), args.key)
          /\ LexLeq(args.key, KeyField(indexFile.bytes, builtKL, j))

\* The keys that two or more keyed records share.
SharedKeys(data, L) ==
    {k \in {KeyOf(data, o, L) : o \in Keyed(data, L)} :
        Cardinality(Matching(data, L, k)) >= 2}

\* C4: when records of length >= keyLength share their first keyLength
\* bytes, the built index has one entry per such record, a search for the
\* key prints exactly one record, one of those sharing it, and list prints
\* every one of them.
C4_DuplicateTolerance ==
    \A k \in (IF IndexBuilt THEN SharedKeys(dataFile.bytes, builtKL) ELSE {}) :
        LET M == Matching(dataFile.bytes, builtKL, k)
        IN /\ Cardinality({i \in Entries(indexFile.bytes, builtKL) :
                              KeyField(indexFile.bytes, builtKL, i) = k})
                = Cardinality(M)
           /\ {OffsetField(indexFile.bytes, builtKL, i) :
                   i \in {j \in Entries(indexFile.bytes, builtKL) :
                              KeyField(indexFile.bytes, builtKL, j) = k}} = M
           /\ (Searched /\ args.key = k) =>
                  \E o \in M : out = << RecordAt(dataFile.bytes, o) >>
           /\ Listed =>
                  \E f \in [M -> DOMAIN out] :
                      /\ \A o1, o2 \in M : o1 # o2 => f[o1] # f[o2]
                      /\ \A o \in M : out[f[o]] = RecordAt(dataFile.bytes, o)

\* list has run on the index of a file with two different records of one
\* non-empty key.
C4_Witness ==
    /\ Listed
    /\ builtKL >= 1
    /\ \E k \in SharedKeys(dataFile.bytes, builtKL) :
          \E o1, o2 \in Matching(dataFile.bytes, builtKL, k) :
              RecordAt(dataFile.bytes, o1) # RecordAt(dataFile.bytes, o2)

\* The records too short to have a key of L bytes.
Short(data, L) == RecordStarts(data) \ Keyed(data, L)

\* C5: a record shorter than keyLength gets no index entry, is never
\* printed by a search, whatever the key, and never appears in the list
\* output.
C5_Exclusion ==
    IndexBuilt =>
        /\ \A i \in Entries(indexFile.bytes, builtKL) :
               OffsetField(indexFile.bytes, builtKL, i)
                   \in Keyed(dataFile.bytes, builtKL)
        /\ (Searched \/ Listed) =>
               \A i \in DOMAIN out :
                   /\ \A o \in Short(dataFile.bytes, builtKL) :
                          out[i] # RecordAt(dataFile.bytes, o)
                   /\ \/ out[i] = RecordNotFound
                      \/ \E o \in Keyed(dataFile.bytes, builtKL) :
                            out[i] = RecordAt(dataFile.bytes, o)

\* list has run on the index of a file with a short record and a keyed one.
C5_Witness ==
    /\ Listed
    /\ out # << >>
    /\ Short(dataFile.bytes, builtKL) # {}

\* C6: after a build, list prints one line per index entry, as many as
\* there are records of length >= keyLength, each the full record at the
\* offset of its entry, in non-decreasing order of their key.
C6_OrderedListing ==
    Listed =>
        /\ err = << >>
        /\ Len(out) = EntryCount(indexFile.bytes, builtKL)
        /\ Len(out) = Cardinality(Keyed(dataFile.bytes, builtKL))
        /\ \A i \in DOMAIN out :
               /\ OffsetField(indexFile.bytes, builtKL, i - 1)
                      \in Keyed(dataFile.bytes, builtKL)
               /\ out[i] = RecordAt(dataFile.bytes,
                                    OffsetField(indexFile.bytes, builtKL, i - 1))
        /\ {OffsetField(indexFile.bytes, builtKL, i) :
                i \in Entries(indexFile.bytes, builtKL)}
               = Keyed(dataFile.bytes, builtKL)
        /\ \A i, j \in DOMAIN out :
               i < j => LexLeq(SubSeq(out[i], 1, builtKL),
                               SubSeq(out[j], 1, builtKL))

\* list has printed, in key order, records that are in another order in the
\* data file, the last of them without a newline behind it.
C6_Witness ==
    /\ Listed
    /\ Len(out) >= 2
    /\ out[1] # out[2]
    /\ out[1] = RecordAt(dataFile.bytes,
                         CHOOSE o \in RecordStarts(dataFile.bytes) :
                             \A p \in RecordStarts(dataFile.bytes) : p <= o)
    /\ dataFile.bytes[Len(dataFile.bytes)] # NL

\* The arguments are malformed: an unknown mode or a wrong count for it.
Malformed ==
    \/ args.argc < 5
    \/ args.mode \notin {"-c", "-l", "-s"}
    \/ args.mode = "-s" /\ args.argc # 6
    \/ args.mode \in {"-c", "-l"} /\ args.argc # 5
\* A file the mode needs cannot be opened.
Unopenable ==
    /\ ~Malformed
    /\ \/ ~dataFile.exists
       \/ args.mode \in {"-l", "-s"} /\ ~indexFile.exists
       \/ args.mode = "-c" /\ ~env.indexOpens

\* C7: on malformed arguments or a file that cannot be opened the program
\* writes a diagnostic to the error stream and exits with status 1; status 0
\* is returned only on well-formed completion of the mode.
C7_ExitStatus ==
    pc = "returned" =>
        /\ (Malformed \/ Unopenable) => (err # << >> /\ status = 1)
        /\ status = 0 => (~Malformed /\ ~Unopenable)

\* C8: for every data file and key length the temporary-file build and the
\* two in-memory builds write byte-identical index files.
C8_BuildsEquivalent ==
    (/\ pc = "returned"
     /\ builder # "none"
     /\ dataFile.exists
     /\ env.tmpOpens
     /\ env.indexOpens)
    => /\ indexFile.exists
       /\ indexFile = createIndex(dataFile, NoFile, NoFile,
                                  args.keyLength, env).index
       /\ indexFile = createIndexInMemorySortTellg(dataFile, NoFile, NoFile,
                                                   args.keyLength, env).index
       /\ indexFile = createIndexInMemorySort(dataFile, NoFile, NoFile,
                                              args.keyLength, env).index

\* The temporary-file build has written an index of several entries for a
\* data file whose last record has no newline behind it.
C8_Witness ==
    /\ JustBuilt
    /\ builder = "createIndex"
    /\ EntryCount(indexFile.bytes, builtKL) >= 2
    /\ dataFile.bytes[Len(dataFile.bytes)] # NL
    /\ tmpFile = NoFile

\* C9: when the index file cannot be opened for writing, the build aborts
\* and reports an error on the error stream.
C9_UnwritableIndexReported ==
    (/\ pc = "returned"
     /\ builder # "none"
     /\ dataFile.exists
     /\ ~env.indexOpens)
    => err # << >>

C11_StrideIntegrity ==
    IndexBuilt =>
        /\ Len(indexFile.bytes) % (builtKL + 8) = 0
        /\ Len(indexFile.bytes)
               = (builtKL + 8) * Cardinality(Keyed(dataFile.bytes, builtKL))

\* The temporary-file build has written the index of a data file that has
\* records with a key and records too short to have one.
C11_Witness ==
    /\ JustBuilt
    /\ builder = "createIndex"
    /\ builtKL >= 1
    /\ Short(dataFile.bytes, builtKL) # {}
    /\ Keyed(dataFile.bytes, builtKL) # {}
    /\ Len(indexFile.bytes) > 0

\* The entries of an index file of stride L + 8 are in key order.
SortedIndex(idx, L) ==
    \A i, j \in Entries(idx, L) :
        i < j => LexLeq(KeyField(idx, L, i), KeyField(idx, L, j))

\* C12: over an index sorted by key, at every iteration of the search loop
\* 0 <= low <= high <= numRecords, and every entry whose key equals the
\* target key lies in [low, high): no step discards a matching entry.
C12_LoopInvariant ==
    (pc = "probe" /\ SortedIndex(indexFile.bytes, args.keyLength)) =>
        /\ 0 <= low
        /\ low <= high
        /\ high <= EntryCount(indexFile.bytes, args.keyLength)
        /\ \A i \in Entries(indexFile.bytes, args.keyLength) :
               KeyField(indexFile.bytes, args.keyLength, i) = args.key
                   => (low <= i /\ i < high)

\* The loop has moved low past a smaller key, and the entry of the target
\* key, not probed yet, is in what is left of the range.
C12_Witness ==
    /\ pc = "probe"
    /\ ~found
    /\ low > 0
    /\ low < high
    /\ Len(args.key) >= 1
    /\ SortedIndex(indexFile.bytes, args.keyLength)
    /\ \E i \in Entries(indexFile.bytes, args.keyLength) :
          KeyField(indexFile.bytes, args.keyLength, i) = args.key

\* The line a seek to offset o and a getline give: the bytes from o up to
\* the next newline, nothing when o is not inside the file.
LineAt(data, o) ==
    IF o \in 0..(Len(data) - 1) THEN RecordAt(data, o) ELSE << >>

\* C13: for every index file and every target key the probe loop
\* terminates; each probe that does not match strictly shrinks high - low;
\* the search ends either with a match read and the record at its offset
\* printed, or with low = high and "Record not found"; an index of no
\* entries goes to "Record not found" without a probe.
C13_SearchTerminates ==
    /\ (pc = "probe") ~> (pc = "returned")
    /\ [][(pc = "probe" /\ pc' = "probe" /\ ~found')
            => (high' - low' < high - low)]_vars
    /\ [][(pc = "probe" /\ EntryCount(indexFile.bytes, args.keyLength) = 0)
            => (pc' = "returned" /\ ~found' /\ out' = << RecordNotFound >>)]_vars
    /\ []((pc = "returned" /\ args.mode = "-s" /\ err = << >>) =>
            IF found
            THEN \E i \in Entries(indexFile.bytes, args.keyLength) :
                    /\ KeyField(indexFile.bytes, args.keyLength, i) = args.key
                    /\ out = << LineAt(dataFile.bytes,
                                       OffsetField(indexFile.bytes,
                                                   args.keyLength, i)) >>
            ELSE low = high /\ out = << RecordNotFound >>)

\* A search has ended in "Record not found" after probes that moved both
\* ends of the range, over an index that is not in key order.
C13_Witness ==
    /\ pc = "returned"
    /\ args.mode = "-s"
    /\ ~found
    /\ low = high
    /\ 0 < low
    /\ low < EntryCount(indexFile.bytes, args.keyLength)
    /\ ~SortedIndex(indexFile.bytes, args.keyLength)
    /\ out = << RecordNotFound >>

\* A key brought to L bytes: cut behind L bytes, or filled up with byte p.
Fit(key, L, p) == [i \in 1..L |-> IF i <= Len(key) THEN key[i] ELSE p]
\* The bytes a short key may be filled up with: NUL and space.
PadBytes == {0, 32}

\* C14: a search with a key whose length differs from keyLength is either
\* rejected as an input error, or gives what a search for the key padded or
\* truncated to keyLength bytes gives: a record of that key when there is
\* one, "Record not found" otherwise.
C14_WrongLengthKey ==
    (Searched /\ Len(args.key) # builtKL) =>
        \/ err # << >>
        \/ status = 1
        \/ \E p \in PadBytes :
              LET M == Matching(dataFile.bytes, builtKL,
                                Fit(args.key, builtKL, p))
              IN IF M = {} THEN out = << RecordNotFound >>
                 ELSE \E o \in M : out = << RecordAt(dataFile.bytes, o) >>

\* C15: once main has run checkOrCreateIndexFile, a file of the index name
\* exists, and list and search do not fail on a missing index file.
C15_IndexFileCreated ==
    (pc # "idle" /\ args.argc >= 5) =>
        /\ indexFile.exists
        /\ args.mode \in {"-l", "-s"} => err # << ErrIndexRead >>

====
